---- MODULE Spec2Model ----
(***************************************************************************)
(* Model of helpers/training.py: the flow builder, the fused-generator     *)
(* adapter, the prediction and metric engine and the cross-validation      *)
(* drivers.                                                                *)
(*                                                                         *)
(* Numbers: probabilities are tenths (2 stands for 0.2, 5 for 0.5, ...);   *)
(* a float quotient a / b is kept exact as the record [num, den].          *)
(* Labels: a class label is a decimal string in the program; the model     *)
(* writes the one-digit label "3" as the number 3, so int(label) is the    *)
(* number itself and the string order of labels is the numeric order.      *)
(***************************************************************************)
EXTENDS Integers, Sequences, FiniteSets, TLC

VARIABLES
    call,          \* pure-function harness: name of the function applied, or "none"
    args,          \* pure-function harness: the arguments of the call
    ret,           \* pure-function harness: what the call returned or raised
    params,        \* driver arguments: driver, is_binary, nr_folds, seed, batch_size
    env,           \* what the external collaborators return during this run
    fold_nr,       \* fold_nr of the drivers
    pc,            \* position of the driver inside its fold loop
    frames,        \* the data frames of the current fold, by variable name
    flows,         \* the flows (keras iterators), by variable name
    gens,          \* the merge_generators generator objects, by variable name
    yielded,       \* per generator object: the elements pulled from it so far
    session,       \* models registered in the backend session (K)
    metrics_dict,  \* metrics_dict of the drivers
    metrics_it,    \* metrics_it of the drivers
    trace,         \* the statements of the fold loop executed so far
    printed        \* the dictionary handed to print_results, or None

vars == <<call, args, ret, params, env, fold_nr, pc, frames, flows, gens, yielded,
          session, metrics_dict, metrics_it, trace, printed>>

fnVars == <<call, args, ret>>
driverVars == <<params, env, fold_nr, pc, frames, session, metrics_dict, metrics_it,
                trace, printed>>
flowVars == <<flows, gens, yielded>>

None == "None"

(* ------------------------------ bounds --------------------------------- *)
MaxRows == 2        \* SpecMerge: rows of each source table
MaxBatch == 2       \* SpecMerge: batch size of the source flows
MaxPre == 2         \* SpecMerge: batches drawn from a source before the adapter runs

ClassLabels == {0, 1}

Min(a, b) == IF a < b THEN a ELSE b

(* ------------------- flows (keras DataFrameIterator) ------------------- *)
\* get_class_mode
get_class_mode(is_binary) == IF is_binary THEN "binary" ELSE "categorical"

\* Stand-in for np.random.permutation(n) under np.random.seed(s): some fixed
\* permutation of 1..n that depends on s only (here a rotation by s).
Permutation(s, n) == [i \in 1..n |-> ((i - 1 + s) % n) + 1]

\* Iterator._set_index_array: the order of the rows for one pass
IndexArray(f) ==
    IF f.shuffle THEN Permutation(f.seed + f.total_batches_seen, Len(f.df))
    ELSE [i \in 1..Len(f.df) |-> i]

\* Iterator.reset
FlowReset(f) == [f EXCEPT !.batch_index = 0]

\* Iterator.next: one step of _flow_index, then the batch of the rows drawn.
\* Returns the flow after the step and the batch (images, labels).
FlowNext(f) ==
    LET n == Len(f.df)
        arr == IF f.batch_index = 0 THEN IndexArray(f) ELSE f.index_array
        current_index == IF n = 0 THEN 0 ELSE (f.batch_index * f.batch_size) % n
        last == Min(current_index + f.batch_size, n)
        rows == [j \in 1..(last - current_index) |-> f.df[arr[current_index + j]]]
    IN  [flow |-> [f EXCEPT !.index_array = arr,
                            !.batch_index = IF n > current_index + f.batch_size
                                            THEN f.batch_index + 1 ELSE 0,
                            !.total_batches_seen = f.total_batches_seen + 1],
         batch |-> <<[j \in 1..Len(rows) |-> [filename |-> rows[j].filename,
                                               cropped |-> rows[j].cropped]],
                     [j \in 1..Len(rows) |-> rows[j].class]>>]

\* create_flow: the generator's flow over df, reset before it is returned
create_flow(df, is_binary, seed, batch_size, shuffle, data_augmentation) ==
    FlowReset([df |-> df,
               class_mode |-> get_class_mode(is_binary),
               seed |-> seed,
               batch_size |-> batch_size,
               shuffle |-> shuffle,
               augment |-> data_augmentation,
               batch_index |-> 0,
               total_batches_seen |-> 0,
               index_array |-> <<>>])

\* number of batches of one pass over the flow (len(flow))
FlowLen(f) == (Len(f.df) + f.batch_size - 1) \div f.batch_size

(* --------------------------- merge_generators --------------------------- *)
\* Calling merge_generators runs none of its body: it returns a generator object
\* that holds the two flows and has not started.
merge_generators(x1, x2) == [x1 |-> x1, x2 |-> x2, started |-> FALSE]

\* The label batch the adapter yields, from the two batches drawn (line 61)
MergedLabelsOther(x1i, x2i) == x2i[2]
MergedLabels(x1i, x2i) == x1i[2]

\* The flows as the generator finds them when it is resumed: on the first
\* resumption the body runs from its top, lines 55-56.
GenEnterKeep(g, fl) == fl
GenEnter(g, fl) ==
    IF g.started THEN fl
    ELSE [fl EXCEPT ![g.x1] = FlowReset(fl[g.x1]), ![g.x2] = FlowReset(fl[g.x2])]

\* One next() on the generator object g: runs to the next yield.
\* Returns the flows afterwards, the generator afterwards and the element.
GenNext(g, fl) ==
    LET f0 == GenEnter(g, fl)
        s1 == FlowNext(f0[g.x1])
        f1 == [f0 EXCEPT ![g.x1] = s1.flow]
        s2 == FlowNext(f1[g.x2])
        f2 == [f1 EXCEPT ![g.x2] = s2.flow]
    IN  [flows |-> f2,
         gen |-> [g EXCEPT !.started = TRUE],
         value |-> << <<s1.batch[1], s2.batch[1]>>, MergedLabels(s1.batch, s2.batch) >>]

(* ------------ specification of the fused-generator adapter -------------- *)
IdleFn == call = "none" /\ args = None /\ ret = None
IdleDriver ==
    /\ params = None /\ env = None /\ fold_nr = 0 /\ pc = "idle" /\ frames = None
    /\ session = {} /\ metrics_dict = None /\ metrics_it = None /\ trace = <<>>
    /\ printed = None

\* a table of n rows whose class column is L
Table(L, cropped) ==
    [i \in 1..Len(L) |-> [filename |-> i, cropped |-> cropped, class |-> L[i]]]

InitMerge ==
    /\ IdleFn /\ IdleDriver
    /\ \E n \in 1..MaxRows, b \in 1..MaxBatch, sh1 \in BOOLEAN, sh2 \in BOOLEAN :
       \E L1 \in [1..n -> ClassLabels], L2 \in [1..n -> ClassLabels] :
          flows = [x1 |-> create_flow(Table(L1, FALSE), TRUE, 0, b, sh1, FALSE),
                   x2 |-> create_flow(Table(L2, TRUE), TRUE, 0, b, sh2, FALSE)]
    /\ gens = [merged |-> merge_generators("x1", "x2")]
    /\ yielded = [merged |-> <<>>]

\* a source flow is used on its own (training or predicting a branch) before
\* the adapter is pulled for the first time
SourceNext(x) ==
    /\ pc = "idle" /\ call = "none"
    /\ ~gens["merged"].started
    /\ flows[x].total_batches_seen < MaxPre
    /\ flows' = [flows EXCEPT ![x] = FlowNext(flows[x]).flow]
    /\ UNCHANGED <<fnVars, driverVars, gens, yielded>>

\* the consumer pulls one element from the adapter
MergedNext ==
    /\ pc = "idle" /\ call = "none"
    /\ Len(yielded["merged"]) <= FlowLen(flows["x1"])
    /\ LET r == GenNext(gens["merged"], flows)
       IN  /\ flows' = r.flows
           /\ gens' = [gens EXCEPT !["merged"] = r.gen]
           /\ yielded' = [yielded EXCEPT !["merged"] = Append(@, r.value)]
    /\ UNCHANGED <<fnVars, driverVars>>

NextMerge == SourceNext("x1") \/ SourceNext("x2") \/ MergedNext

SpecMerge == InitMerge /\ [][NextMerge]_vars

(* ------------------------------- C3 ------------------------------------- *)
\* rows (i-1)*b+1 .. min(i*b, n) of table df, as the image batch of a flow
ImageBatchOf(df, b, i) ==
    [j \in 1..(Min(i * b, Len(df)) - (i - 1) * b) |->
        [filename |-> df[(i - 1) * b + j].filename, cropped |-> df[(i - 1) * b + j].cropped]]

\* C3: whenever an element is pulled from merge_generators(x1, x2), each source
\* flow has advanced by exactly one batch; and the i-th element pulled, for i up
\* to the flows' common length N, is drawn from a pass that both flows started
\* afresh (both were reset before the first draw, whatever was drawn from them
\* before): its labels are the labels of the rows in its x1 image batch, taken
\* from x1's table (never x2's), and for a flow that is not shuffled the image
\* batch is batch i of that flow's table.
C3_MergedYieldsFirstFlow ==
    [][ Len(yielded'["merged"]) = Len(yielded["merged"]) + 1 =>
        LET i == Len(yielded'["merged"])
            e == yielded'["merged"][i]
            x1 == flows["x1"]
            x2 == flows["x2"]
        IN  /\ flows'["x1"].total_batches_seen = x1.total_batches_seen + 1
            /\ flows'["x2"].total_batches_seen = x2.total_batches_seen + 1
            /\ i <= FlowLen(x1) =>
                 /\ flows'["x1"].batch_index = i % FlowLen(x1)
                 /\ flows'["x2"].batch_index = i % FlowLen(x2)
                 /\ Len(e[2]) = Len(e[1][1])
                 /\ \A j \in 1..Len(e[2]) : e[2][j] = x1.df[e[1][1][j].filename].class
                 /\ \A j \in 1..Len(e[1][1]) : ~e[1][1][j].cropped
                 /\ \A j \in 1..Len(e[1][2]) : e[1][2][j].cropped
                 /\ ~x1.shuffle => e[1][1] = ImageBatchOf(x1.df, x1.batch_size, i)
                 /\ ~x2.shuffle => e[1][2] = ImageBatchOf(x2.df, x2.batch_size, i)
      ]_vars

\* N = 2 pulls done from flows that had been used before, whose tables disagree
\* on every label
C3_Witness ==
    /\ pc = "idle" /\ call = "none"
    /\ Len(yielded["merged"]) = 2 /\ FlowLen(flows["x1"]) = 2
    /\ flows["x1"].total_batches_seen > 2 /\ flows["x2"].total_batches_seen > 2
    /\ \A i \in 1..Len(flows["x1"].df) : flows["x1"].df[i].class # flows["x2"].df[i].class

(* ===================== prediction and metric engine ===================== *)
MaxSamples == 2     \* SpecPrediction, SpecPerClass: test samples of one call

ProbVals == {2, 5, 8}          \* binary probabilities, in tenths
ScoreVals == {2, 8}            \* entries of a multi-class probability row, in tenths
LabelUniverse == {0, 1, 2}     \* the class labels "0", "1", "2"

\* a float quotient, kept exact; x / 0 is what numpy gives without raising
\* (nan for 0 / 0), written as the quotient with den = 0
Quot(a, b) == [num |-> a, den |-> b]

Raise(e) == [raised |-> e]

\* sorted(S) of a finite set of numbers, as a sequence
RECURSIVE SortedSeq(_)
SortedSeq(S) ==
    IF S = {} THEN <<>>
    ELSE LET m == CHOOSE x \in S : \A y \in S : x <= y
         IN  <<m>> \o SortedSeq(S \ {m})

\* flow.class_indices of a flow over a table with these labels: each label's
\* position in the sorted list of the labels that occur (flow_from_dataframe)
ClassIndices(S) == [l \in S |-> Cardinality({m \in S : m < l})]

\* flow.classes: the class index of each row under the flow's own class_indices
FlowClasses(labels) ==
    LET ci == ClassIndices({labels[i] : i \in 1..Len(labels)})
    IN  [i \in 1..Len(labels) |-> ci[labels[i]]]

\* train_flow['1']: Iterator.__getitem__ compares its index with len(self); for a
\* str index the comparison raises (TypeError; ValueError under Python 2)
FlowGetItemStr(train_flow) == Raise("TypeError")

\* verify_probabilities (labels "0" and "1" are the numbers 0 and 1)
verify_probabilities(y_probs, train_flow) ==
    LET train_indices == train_flow.class_indices
    IN  IF 0 \notin DOMAIN train_indices THEN Raise("KeyError")
        ELSE IF train_indices[0] # 0
             THEN \* the right operand of `and` is evaluated
                  FlowGetItemStr(train_flow)
             ELSE [raised |-> None, value |-> y_probs]

\* np.argmax of one row: the first index (from 0) of the largest entry
ArgMax(row) ==
    (CHOOSE i \in 1..Len(row) :
        /\ \A j \in 1..Len(row) : row[j] <= row[i]
        /\ \A j \in 1..(i - 1) : row[j] < row[i]) - 1

\* the label the prediction is mapped back to (lines 77-79): int(labels[k])
PredictedLabel(class_indices, k) == CHOOSE l \in DOMAIN class_indices : class_indices[l] = k

\* calculate_prediction
calculate_prediction(y_pred_prob, trn_flow, tst_flow, is_binary) ==
    IF is_binary
    THEN LET v == verify_probabilities(y_pred_prob, trn_flow)
         IN  IF v.raised # None THEN v
             ELSE [raised |-> None,
                   y_pred_prob |-> v.value,
                   y_pred |-> [i \in 1..Len(v.value) |-> IF v.value[i] > 5 THEN 1 ELSE 0],
                   y_test |-> tst_flow.classes]
    ELSE [raised |-> None,
          y_pred_prob |-> y_pred_prob,
          y_pred |-> [i \in 1..Len(y_pred_prob) |->
                        PredictedLabel(trn_flow.class_indices, ArgMax(y_pred_prob[i]))],
          y_test |-> tst_flow.classes]

\* accuracy_score: the fraction of positions where the two sequences agree
accuracy_score(y_test, y_pred) ==
    Quot(Cardinality({i \in 1..Len(y_test) : y_test[i] = y_pred[i]}), Len(y_test))

IdleFlows == flows = None /\ gens = None /\ yielded = None

\* The inputs of one prediction: the training flow's class-index table, the test
\* rows' true labels with the test flow built over them, and the model's output.
InitPrediction ==
    /\ IdleDriver /\ IdleFlows
    /\ call = "none" /\ ret = None
    /\ \E n \in 1..MaxSamples :
       \/ \E ci \in {f \in [{0, 1} -> {0, 1}] : f[0] # f[1]},
             probs \in [1..n -> ProbVals], labels \in [1..n -> {0, 1}] :
             args = [is_binary |-> TRUE, y_pred_prob |-> probs, labels |-> labels,
                     trn_flow |-> [class_indices |-> ci],
                     tst_flow |-> [classes |-> FlowClasses(labels)]]
       \/ \E S \in {T \in SUBSET LabelUniverse : Cardinality(T) >= 2} :
          \E probs \in [1..n -> [1..Cardinality(S) -> ScoreVals]], labels \in [1..n -> S] :
             args = [is_binary |-> FALSE, y_pred_prob |-> probs, labels |-> labels,
                     trn_flow |-> [class_indices |-> ClassIndices(S)],
                     tst_flow |-> [classes |-> FlowClasses(labels)]]

\* lines 153-156 of the drivers: the prediction, then the accuracy of the metrics
ApplyPrediction ==
    /\ call = "none"
    /\ call' = "calculate_prediction"
    /\ LET r == calculate_prediction(args.y_pred_prob, args.trn_flow, args.tst_flow,
                                     args.is_binary)
       IN  ret' = IF r.raised # None THEN r
                  ELSE [raised |-> None, y_pred_prob |-> r.y_pred_prob,
                        y_pred |-> r.y_pred, y_test |-> r.y_test,
                        accuracy |-> accuracy_score(r.y_test, r.y_pred)]
    /\ UNCHANGED <<args, driverVars, flowVars>>

SpecPrediction == InitPrediction /\ [][ApplyPrediction]_vars

(* ------------------------------- C2 ------------------------------------- *)
\* C2: in binary mode, with an inverted class-index table (label "0" is not at
\* index 0) calculate_prediction returns the hard predictions of the complemented
\* probabilities 1 - p thresholded at 0.5, and with an aligned table those of the
\* probabilities as they are.
C2_BinaryAlignment ==
    (call = "calculate_prediction" /\ args.is_binary) =>
        /\ ret.raised = None
        /\ ret.y_pred =
             [i \in 1..Len(args.y_pred_prob) |->
                 IF args.trn_flow.class_indices[0] # 0
                 THEN (IF 10 - args.y_pred_prob[i] > 5 THEN 1 ELSE 0)
                 ELSE (IF args.y_pred_prob[i] > 5 THEN 1 ELSE 0)]

(* ------------------------------- C9 ------------------------------------- *)
\* C9: in multi-class mode a test sample whose arg-max index is the class index
\* of its true label (in the training flow's table) is counted as correctly
\* classified: its predicted and true label agree, so the accuracy counts at
\* least all such samples.
C9_SameLabelSpace ==
    (call = "calculate_prediction" /\ ~args.is_binary) =>
        LET hits == {i \in 1..Len(args.labels) :
                        ArgMax(args.y_pred_prob[i]) = args.trn_flow.class_indices[args.labels[i]]}
        IN  /\ ret.raised = None
            /\ \A i \in hits : ret.y_pred[i] = ret.y_test[i]
            /\ ret.accuracy.num >= Cardinality(hits)

(* ------------------- calculate_average_precision_ks --------------------- *)
MaxPool == 3        \* SpecAvgPrecision: pairs in the probability pool
MaxK == 3           \* SpecAvgPrecision: largest cut-off in ks

Reverse(s) == [i \in 1..Len(s) |-> s[Len(s) + 1 - i]]

\* insertion of e behind every element whose key is >= e's key
InsertDesc(s, e) ==
    LET before == Cardinality({i \in 1..Len(s) : s[i][1] >= e[1]})
    IN  SubSeq(s, 1, before) \o <<e>> \o SubSeq(s, before + 1, Len(s))

\* insertion of e behind every element whose key is <= e's key
InsertAsc(s, e) ==
    LET before == Cardinality({i \in 1..Len(s) : s[i][1] <= e[1]})
    IN  SubSeq(s, 1, before) \o <<e>> \o SubSeq(s, before + 1, Len(s))

RECURSIVE SortAsc(_)
SortAsc(lst) ==
    IF lst = <<>> THEN <<>>
    ELSE InsertAsc(SortAsc(SubSeq(lst, 1, Len(lst) - 1)), lst[Len(lst)])

RECURSIVE SortDescStable(_)
SortDescStable(lst) ==
    IF lst = <<>> THEN <<>>
    ELSE InsertDesc(SortDescStable(SubSeq(lst, 1, Len(lst) - 1)), lst[Len(lst)])

\* an ascending sort read backwards: equal keys come out in reverse order
SortedReversed(lst) == Reverse(SortAsc(lst))
\* sorted(lst, key=itemgetter(0), reverse=True): a new list, stable
Sorted(lst) == SortDescStable(lst)

\* a slice that insists on k elements
SliceStrict(results, k) == IF k <= Len(results) THEN SubSeq(results, 1, k) ELSE <<>>
\* results[:k]
Slice(results, k) == SubSeq(results, 1, Min(k, Len(results)))

\* the loop of lines 131-136 from the i-th cut-off on; `y_score, y_true = zip(*s)`
\* raises ValueError when s is empty (zip() yields nothing to unpack)
RECURSIVE KsLoop(_, _, _, _)
KsLoop(results, ks, i, scored) ==
    IF i > Len(ks) THEN [raised |-> None, scored |-> scored]
    ELSE LET s == Slice(results, ks[i])
         IN  IF s = <<>> THEN [raised |-> "ValueError", scored |-> scored]
             ELSE KsLoop(results, ks, i + 1,
                         Append(scored, [k |-> ks[i],
                                         y_score |-> [j \in 1..Len(s) |-> s[j][1]],
                                         y_true |-> [j \in 1..Len(s) |-> s[j][2]]]))

\* calculate_average_precision_ks: what was scored for each k, whether it raised,
\* and the caller's list after the call
calculate_average_precision_ks(lst, is_binary, ks) ==
    IF is_binary
    THEN LET r == KsLoop(Sorted(lst), ks, 1, <<>>)
         IN  [raised |-> r.raised, scored |-> r.scored, lst |-> lst]
    ELSE [raised |-> None, scored |-> <<>>, lst |-> lst]

InitAvgPrecision ==
    /\ IdleDriver /\ IdleFlows
    /\ call = "none" /\ ret = None
    /\ \E n \in 0..MaxPool, K \in (SUBSET (1..MaxK)) \ {{}}, b \in BOOLEAN :
       \E lst \in [1..n -> ProbVals \X {0, 1}] :
          args = [lst |-> lst, is_binary |-> b, ks |-> SortedSeq(K)]

ApplyAvgPrecision ==
    /\ call = "none"
    /\ call' = "calculate_average_precision_ks"
    /\ ret' = calculate_average_precision_ks(args.lst, args.is_binary, args.ks)
    /\ UNCHANGED <<args, driverVars, flowVars>>

SpecAvgPrecision == InitAvgPrecision /\ [][ApplyAvgPrecision]_vars

(* ------------------------------- C4 ------------------------------------- *)
\* the pool's pair at rank r when the pairs are ranked by descending probability
\* and, among equal probabilities, by their position in the pool
RankedPool(lst) ==
    [r \in 1..Len(lst) |->
        lst[CHOOSE a \in 1..Len(lst) :
               Cardinality({b \in 1..Len(lst) :
                              \/ lst[b][1] > lst[a][1]
                              \/ (lst[b][1] = lst[a][1] /\ b < a)}) = r - 1]]

\* C4: in binary mode the pairs scored for each k are the first k pairs (all of
\* them when the pool holds fewer) of the pool ordered by descending probability,
\* pairs of equal probability in their original order; every k is scored when the
\* call does not raise; and the pool itself is left as it was.
C4_TopKStable ==
    (call = "calculate_average_precision_ks" /\ args.is_binary) =>
        /\ ret.lst = args.lst
        /\ ret.raised = None => Len(ret.scored) = Len(args.ks)
        /\ \A j \in 1..Len(ret.scored) :
              LET k == args.ks[j]
                  top == SubSeq(RankedPool(args.lst), 1, Min(k, Len(args.lst)))
              IN  /\ ret.scored[j].k = k
                  /\ ret.scored[j].y_score = [i \in 1..Len(top) |-> top[i][1]]
                  /\ ret.scored[j].y_true = [i \in 1..Len(top) |-> top[i][2]]

\* a pool with a tie between pairs of different labels, cut inside the tie
C4_Witness ==
    /\ call = "calculate_average_precision_ks" /\ args.is_binary
    /\ Len(args.lst) = 3 /\ Len(ret.scored) >= 1 /\ ret.scored[1].k = 2
    /\ args.lst[1][1] < args.lst[2][1] /\ args.lst[2][1] = args.lst[3][1]
    /\ args.lst[2][2] # args.lst[3][2]

(* ------------------------------- C5 ------------------------------------- *)
\* C5 as stated: in binary mode a pool shorter than max(ks) makes the call raise.
C5_ShortPoolRaises ==
    (call = "calculate_average_precision_ks" /\ args.is_binary
        /\ Len(args.lst) < args.ks[Len(args.ks)]) => ret.raised # None

\* C5 amended: in binary mode the call raises exactly when the pool is empty (the
\* first slice is then empty and cannot be unzipped); a non-empty pool shorter
\* than max(ks) is scored whole for every k that exceeds it.
C5_RaisesIffEmptyPool ==
    (call = "calculate_average_precision_ks" /\ args.is_binary) =>
        /\ (ret.raised # None) <=> (Len(args.lst) = 0)
        /\ Len(args.lst) = 0 => ret.scored = <<>>
        /\ Len(args.lst) > 0 =>
              \A j \in 1..Len(args.ks) :
                 Len(ret.scored[j].y_score) = Min(args.ks[j], Len(args.lst))

\* a non-empty pool shorter than max(ks), scored without an error
C5_Witness ==
    /\ call = "calculate_average_precision_ks" /\ args.is_binary
    /\ Len(args.lst) = 1 /\ args.ks = <<2, 3>>
    /\ ret.raised = None /\ Len(ret.scored) = 2

(* -------------------- calculate_accuracy_per_class ---------------------- *)
\* confusion_matrix(y_test, y_pred): labels are the sorted labels that occur in
\* either sequence; entry [t][p] counts the samples of true label t predicted p
confusion_matrix(y_test, y_pred) ==
    LET labels == {y_test[i] : i \in 1..Len(y_test)} \cup {y_pred[i] : i \in 1..Len(y_pred)}
    IN  [t \in labels |-> [p \in labels |->
            Cardinality({i \in 1..Len(y_test) : y_test[i] = t /\ y_pred[i] = p})]]

RECURSIVE SumOver(_, _)
SumOver(f, S) ==
    IF S = {} THEN 0
    ELSE LET x == CHOOSE y \in S : TRUE IN f[x] + SumOver(f, S \ {x})

\* cm.sum(axis=0): the total of a column
ColumnTotal(cm, l) == SumOver([t \in DOMAIN cm |-> cm[t][l]], DOMAIN cm)
\* cm.sum(axis=1): the total of a row
RowTotal(cm, l) == SumOver(cm[l], DOMAIN cm)

\* calculate_accuracy_per_class: the diagonal of the row-normalised matrix it
\* prints, by label; every row is divided, whatever its total
calculate_accuracy_per_class(y_test, y_pred) ==
    LET cm == confusion_matrix(y_test, y_pred)
    IN  [l \in DOMAIN cm |-> Quot(cm[l][l], RowTotal(cm, l))]

InitPerClass ==
    /\ IdleDriver /\ IdleFlows
    /\ call = "none" /\ ret = None
    /\ \E n \in 1..MaxSamples :
       \E y_test \in [1..n -> LabelUniverse], y_pred \in [1..n -> LabelUniverse] :
          args = [y_test |-> y_test, y_pred |-> y_pred]

ApplyPerClass ==
    /\ call = "none"
    /\ call' = "calculate_accuracy_per_class"
    /\ ret' = calculate_accuracy_per_class(args.y_test, args.y_pred)
    /\ UNCHANGED <<args, driverVars, flowVars>>

SpecPerClass == InitPerClass /\ [][ApplyPerClass]_vars

(* ------------------------------- C8 ------------------------------------- *)
\* C8: the per-class value of every class that occurs among the true labels is a
\* quotient with a positive divisor that lies in [0, 1] (the class's correct
\* predictions over its samples); a class that occurs only among the predictions
\* still gets a value, the unguarded quotient 0 / 0.
C8_PerClassInUnitInterval ==
    call = "calculate_accuracy_per_class" =>
        LET true == {args.y_test[i] : i \in 1..Len(args.y_test)}
            pred == {args.y_pred[i] : i \in 1..Len(args.y_pred)}
        IN  /\ DOMAIN ret = true \cup pred
            /\ \A l \in true :
                  /\ ret[l].den = Cardinality({i \in 1..Len(args.y_test) : args.y_test[i] = l})
                  /\ ret[l].den > 0 /\ 0 <= ret[l].num /\ ret[l].num <= ret[l].den
                  /\ ret[l].num = Cardinality({i \in 1..Len(args.y_test) :
                                                  args.y_test[i] = l /\ args.y_pred[i] = l})
            /\ \A l \in pred \ true : ret[l] = Quot(0, 0)

\* one class predicted right once and wrong once, another only ever predicted
C8_Witness ==
    /\ call = "calculate_accuracy_per_class"
    /\ args.y_test = <<0, 0>> /\ args.y_pred = <<0, 1>>
    /\ ret[0] = Quot(1, 2) /\ ret[1].den = 0

(* ====================== cross-validation drivers ======================== *)
ManifestRows == 5     \* rows of the dataset manifest
MaxFolds == 3         \* largest nr_folds
MaxTrainBatches == 2  \* SpecFused: batches one training call draws from each flow
MaxPrefetch == 1      \* SpecFused: batches predict_generator draws beyond its steps

MetricVals == {1, 3}  \* the values a metric of one fold takes
Seeds == {0, 1}

Upd(f, k, v) == (k :> v) @@ f

\* the keys of the dictionary accuracy_precision_recall_fscore returns
MetricKeys(is_binary) ==
    IF is_binary THEN {"accuracy", "precision", "recall", "f-score"}
    ELSE {"accuracy", "precision_ma", "recall_ma", "f-score_ma", "mean_absolute_error"}

AllKeys == MetricKeys(TRUE) \cup MetricKeys(FALSE)

\* accuracy_precision_recall_fscore in the drivers: the dictionary of the keys
\* above; the values are what the metrics library computes for this fold and
\* stage (env.metrics)
accuracy_precision_recall_fscore(scores, is_binary) ==
    [k \in MetricKeys(is_binary) |-> scores[k]]

\* metrics_dict starts as defaultdict(int): a missing key reads as 0; from the
\* first fold on it is a plain dict
Lookup(md, k) == IF k \in DOMAIN md.items THEN md.items[k] ELSE 0

\* line 284 / 246 with the sum forgotten
AccumulatedOverwrite(md, mit) == [default |-> FALSE, items |-> mit]
\* line 284 / 246: dict((k, metrics_dict[k] + v) for k, v in metrics_it.items())
Accumulated(md, mit) ==
    [default |-> FALSE, items |-> [k \in DOMAIN mit |-> Lookup(md, k) + mit[k]]]

\* line 288 / 250: dict((k, v / nr_folds) for k, v in metrics_dict.items())
Averaged(md, nr_folds) == [k \in DOMAIN md.items |-> Quot(md.items[k], nr_folds)]

\* K.clear_session left out
clear_session_keep(sess) == sess
\* K.clear_session(): the backend forgets every model it holds
clear_session(sess) == {}

\* the rows of x (and their classes y) at the indices idx, in index order
TakeRows(x, idx) == [i \in 1..Cardinality(idx) |-> x[SortedSeq(idx)[i]]]

\* train_test_split(x, y, test_size=split_size, stratify=y, random_state=seed):
\* ceil(0.10 * n) rows go to validation and the others to training; which rows
\* is the library's choice for this seed (env.val_offset). The library's
\* refusal of splits too small to stratify is not modelled.
train_test_split(df, val_offset) ==
    LET n == Len(df)
        n_val == (n + 9) \div 10
        val == {((val_offset + j) % n) + 1 : j \in 0..(n_val - 1)}
    IN  [train |-> TakeRows(df, (1..n) \ val), val |-> TakeRows(df, val)]

\* the training flow built over the whole table instead of x_train
get_training_and_validation_flow_all(df, data_augmentation, is_binary, random_seed, batch_size, val_offset) ==
    LET s == train_test_split(df, val_offset)
    IN  [train_flow |-> create_flow(df, is_binary, random_seed, batch_size, TRUE,
                                    data_augmentation),
         validation_flow |-> create_flow(s.val, is_binary, random_seed, 1, TRUE, FALSE)]
\* get_training_and_validation_flow
get_training_and_validation_flow(df, data_augmentation, is_binary, random_seed, batch_size, val_offset) ==
    LET s == train_test_split(df, val_offset)
    IN  [train_flow |-> create_flow(s.train, is_binary, random_seed, batch_size, TRUE,
                                    data_augmentation),
         validation_flow |-> create_flow(s.val, is_binary, random_seed, 1, TRUE, FALSE)]

\* the test flow of a fold: create_flow(df, is_binary, seed, batch_size=1, shuffle=False)
create_test_flow_shuffled(df, is_binary, seed) == create_flow(df, is_binary, seed, 1, TRUE, FALSE)
create_test_flow(df, is_binary, seed) == create_flow(df, is_binary, seed, 1, FALSE, FALSE)

\* crop_and_draw_class_activation_map: a new table with one cropped image per
\* row of df, in the same order and with the same classes
crop_and_draw_class_activation_map(df) ==
    [i \in 1..Len(df) |-> [df[i] EXCEPT !.cropped = TRUE]]

\* count consecutive next() calls on a flow
RECURSIVE FlowPull(_, _)
FlowPull(f, count) == IF count = 0 THEN f ELSE FlowPull(FlowNext(f).flow, count - 1)

\* count consecutive next() calls on a generator object; the elements are
\* appended to out
RECURSIVE GenPull(_, _, _, _)
GenPull(g, fl, count, out) ==
    IF count = 0 THEN [flows |-> fl, gen |-> g, out |-> out]
    ELSE LET r == GenNext(g, fl)
         IN  GenPull(r.gen, r.flows, count - 1, Append(out, r.value))

\* the manifest: row i is file i with class i % 2
Manifest == [i \in 1..ManifestRows |-> [filename |-> i, cropped |-> FALSE, class |-> i % 2]]

\* the test manifest of the split driver: other files than the manifest's
TestManifest ==
    [i \in 1..ManifestRows |->
        [filename |-> ManifestRows + i, cropped |-> FALSE, class |-> i % 2]]

\* StratifiedKFold(n_splits).split: the test indices of each fold; the folds are
\* disjoint, cover the manifest, and the first n % k of them hold one index more
FoldSizes(n, k) == [f \in 1..k |-> (n \div k) + (IF f <= n % k THEN 1 ELSE 0)]

KFoldSplits(n, k) ==
    LET deals == {a \in [1..n -> 1..k] :
                    \A f \in 1..k : Cardinality({i \in 1..n : a[i] = f}) = FoldSizes(n, k)[f]}
    IN  {[f \in 1..k |-> {i \in 1..n : a[i] = f}] : a \in deals}

\* the split that deals the rows out in manifest order
KFoldInOrder(n, k) ==
    [f \in 1..k |-> {i \in 1..n : \E j \in 1..FoldSizes(n, k)[f] :
                        i = j + SumOver(FoldSizes(n, k), 1..(f - 1))}]

\* the metrics of one fold: the final stage takes (a, b)-determined values, the
\* global and the local branch of the dual-branch driver take other values
FoldScores(a, b) ==
    LET final == [k \in AllKeys |->
                    CASE k = "accuracy" -> a
                      [] k \in {"precision", "precision_ma"} -> b
                      [] k \in {"recall", "recall_ma"} -> a + b
                      [] k \in {"f-score", "f-score_ma"} -> a + 2 * b
                      [] OTHER -> 2 * a + b]
    IN  [single |-> final, fused |-> final,
         global |-> [k \in AllKeys |-> final[k] + 1],
         local |-> [k \in AllKeys |-> final[k] + 2]]

Drivers == {"split", "cv", "attention_guided"}
\* the fold counts a driver is run with (the split driver has no folds: one pass)
FoldCounts(d) ==
    IF d = "split" THEN {1}
    ELSE {k \in 2..MaxFolds : ManifestRows - ((ManifestRows + k - 1) \div k) >= 2}

InitDriverState ==
    /\ IdleFn
    /\ fold_nr = 1
    /\ pc = "split"
    /\ frames = <<>> /\ flows = <<>> /\ gens = <<>> /\ yielded = <<>>
    /\ session = {}
    /\ metrics_dict = [default |-> TRUE, items |-> <<>>]
    /\ metrics_it = <<>>
    /\ trace = <<>>
    /\ printed = <<>>

\* runs that differ in what the models score
Init ==
    /\ InitDriverState
    /\ \E d \in Drivers, b \in BOOLEAN :
       \E k \in FoldCounts(d) :
       /\ params = [driver |-> d, is_binary |-> b, nr_folds |-> k, seed |-> 0,
                    batch_size |-> 2, data_augmentation |-> FALSE]
       /\ \E m \in [1..k -> MetricVals \X MetricVals] :
             env = [k_fold |-> KFoldInOrder(ManifestRows, k), val_offset |-> 0,
                    metrics |-> [f \in 1..k |-> FoldScores(m[f][1], m[f][2])],
                    train_batches |-> 0, prefetch |-> 0]

\* runs that differ in how the libraries split the manifest
InitSplit ==
    /\ InitDriverState
    /\ \E d \in Drivers :
       \E k \in FoldCounts(d) :
       /\ params = [driver |-> d, is_binary |-> TRUE, nr_folds |-> k, seed |-> 0,
                    batch_size |-> 2, data_augmentation |-> TRUE]
       /\ \E s \in KFoldSplits(ManifestRows, k), o \in 0..(ManifestRows - 1) :
             env = [k_fold |-> s, val_offset |-> o,
                    metrics |-> [f \in 1..k |-> FoldScores(1, 3)],
                    train_batches |-> 1, prefetch |-> 0]

\* runs that differ in how the libraries consume the flows
InitFused ==
    /\ InitDriverState
    /\ \E d \in Drivers, sd \in Seeds, bs \in 1..MaxBatch :
       \E k \in FoldCounts(d) :
       /\ params = [driver |-> d, is_binary |-> TRUE, nr_folds |-> k, seed |-> sd,
                    batch_size |-> bs, data_augmentation |-> TRUE]
       /\ \E t \in 0..MaxTrainBatches, q \in 0..MaxPrefetch :
             env = [k_fold |-> KFoldInOrder(ManifestRows, k), val_offset |-> 0,
                    metrics |-> [f \in 1..k |-> FoldScores(1, 3)],
                    train_batches |-> t, prefetch |-> q]

(* ------------------------- steps of the fold loop ------------------------ *)
Logged == Append(trace, [fold |-> fold_nr, stmt |-> pc])

\* train_or_load_model: the model it returns lives in the backend session
train_or_load_model(sess, fold, branch) == sess \cup {[fold |-> fold, branch |-> branch]}

\* x[train], y[train] and x[test], y[test] of the current fold
TrainFrame == TakeRows(Manifest, (1..ManifestRows) \ env.k_fold[fold_nr])
TestFrame == TakeRows(Manifest, env.k_fold[fold_nr])

\* train_test_model_split, lines 142-149
SP_Flows ==
    /\ params.driver = "split" /\ pc = "split"
    /\ LET tv == get_training_and_validation_flow(Manifest, params.data_augmentation,
                     params.is_binary, params.seed, params.batch_size, env.val_offset)
       IN  /\ frames' = Upd(Upd(frames, "train_df", Manifest), "test_df", TestManifest)
           /\ flows' = Upd(Upd(Upd(flows, "trn_flow", tv.train_flow),
                               "val_flow", tv.validation_flow),
                           "tst_flow", create_test_flow(TestManifest, params.is_binary,
                                                        params.seed))
    /\ pc' = "train" /\ trace' = Logged
    /\ UNCHANGED <<fnVars, params, env, fold_nr, gens, yielded, session, metrics_dict,
                   metrics_it, printed>>

\* lines 151-153
SP_TrainPredict ==
    /\ params.driver = "split" /\ pc = "train"
    /\ session' = train_or_load_model(session, fold_nr, "single")
    /\ flows' = Upd(Upd(Upd(flows, "trn_flow", FlowPull(flows["trn_flow"], env.train_batches)),
                        "val_flow", FlowPull(flows["val_flow"], env.train_batches)),
                    "tst_flow", FlowPull(flows["tst_flow"],
                                         Len(flows["tst_flow"].df) + env.prefetch))
    /\ pc' = "metrics" /\ trace' = Logged
    /\ UNCHANGED <<fnVars, params, env, fold_nr, frames, gens, yielded, metrics_dict,
                   metrics_it, printed>>

\* lines 155-165: the metrics of the one pass, printed as they are
SP_MetricsReport ==
    /\ params.driver = "split" /\ pc = "metrics"
    /\ LET m == accuracy_precision_recall_fscore(env.metrics[fold_nr].single, params.is_binary)
       IN  /\ metrics_dict' = [default |-> FALSE, items |-> m]
           /\ printed' = m
    /\ pc' = "done" /\ trace' = Logged
    /\ UNCHANGED <<fnVars, params, env, fold_nr, frames, flowVars, session, metrics_it>>

\* train_test_model_cv, lines 263-269
CV_Split ==
    /\ params.driver = "cv" /\ pc = "split"
    /\ LET tv == get_training_and_validation_flow(TrainFrame, params.data_augmentation,
                     params.is_binary, params.seed, params.batch_size, env.val_offset)
       IN  /\ frames' = Upd(Upd(frames, "train_data_frame", TrainFrame),
                            "test_data_frame", TestFrame)
           /\ flows' = Upd(Upd(Upd(flows, "trn_flow", tv.train_flow),
                               "val_flow", tv.validation_flow),
                           "tst_flow", create_test_flow(TestFrame, params.is_binary, params.seed))
    /\ pc' = "train" /\ trace' = Logged
    /\ UNCHANGED <<fnVars, params, env, fold_nr, gens, yielded, session, metrics_dict,
                   metrics_it, printed>>

\* lines 271-272
CV_Train ==
    /\ params.driver = "cv" /\ pc = "train"
    /\ session' = train_or_load_model(session, fold_nr, "single")
    /\ flows' = Upd(Upd(flows, "trn_flow", FlowPull(flows["trn_flow"], env.train_batches)),
                    "val_flow", FlowPull(flows["val_flow"], env.train_batches))
    /\ pc' = "predict" /\ trace' = Logged
    /\ UNCHANGED <<fnVars, params, env, fold_nr, frames, gens, yielded, metrics_dict,
                   metrics_it, printed>>

\* line 273
CV_Predict ==
    /\ params.driver = "cv" /\ pc = "predict"
    /\ flows' = Upd(flows, "tst_flow",
                    FlowPull(flows["tst_flow"], Len(flows["tst_flow"].df) + env.prefetch))
    /\ pc' = "metrics" /\ trace' = Logged
    /\ UNCHANGED <<fnVars, params, env, fold_nr, frames, gens, yielded, session,
                   metrics_dict, metrics_it, printed>>

\* lines 275-277
CV_Metrics ==
    /\ params.driver = "cv" /\ pc = "metrics"
    /\ metrics_it' = accuracy_precision_recall_fscore(env.metrics[fold_nr].single,
                                                      params.is_binary)
    /\ pc' = "report" /\ trace' = Logged
    /\ UNCHANGED <<fnVars, params, env, fold_nr, frames, flowVars, session, metrics_dict,
                   printed>>

\* lines 279-282 (and 239-244): the fold's report and its class activation maps
Report ==
    /\ pc = "report"
    /\ pc' = "accumulate" /\ trace' = Logged
    /\ UNCHANGED <<fnVars, params, env, fold_nr, frames, flowVars, session, metrics_dict,
                   metrics_it, printed>>

\* line 284 (and 246)
Accumulate ==
    /\ pc = "accumulate"
    /\ metrics_dict' = Accumulated(metrics_dict, metrics_it)
    /\ pc' = "clear" /\ trace' = Logged
    /\ UNCHANGED <<fnVars, params, env, fold_nr, frames, flowVars, session, metrics_it,
                   printed>>

\* line 285 (and 247)
ClearSession ==
    /\ pc = "clear"
    /\ session' = clear_session(session)
    /\ pc' = "next" /\ trace' = Logged
    /\ UNCHANGED <<fnVars, params, env, fold_nr, frames, flowVars, metrics_dict,
                   metrics_it, printed>>

\* line 286 (and 248), and the loop's next iteration or its end
NextFold ==
    /\ pc = "next"
    /\ fold_nr' = fold_nr + 1
    /\ pc' = IF fold_nr < params.nr_folds THEN "split" ELSE "average"
    /\ trace' = Logged
    /\ UNCHANGED <<fnVars, params, env, frames, flowVars, session, metrics_dict,
                   metrics_it, printed>>

\* lines 288-289 (and 250-251)
Average ==
    /\ pc = "average"
    /\ printed' = Averaged(metrics_dict, params.nr_folds)
    /\ metrics_dict' = [default |-> FALSE, items |-> Averaged(metrics_dict, params.nr_folds)]
    /\ pc' = "done" /\ trace' = Logged
    /\ UNCHANGED <<fnVars, params, env, fold_nr, frames, flowVars, session, metrics_it>>

\* train_test_attention_guided_cnn, lines 176-189
AG_Split ==
    /\ params.driver = "attention_guided" /\ pc = "split"
    /\ LET tv == get_training_and_validation_flow(TrainFrame, params.data_augmentation,
                     params.is_binary, params.seed, params.batch_size, env.val_offset)
       IN  /\ frames' = Upd(Upd(frames, "train_data_frame", TrainFrame),
                            "test_data_frame", TestFrame)
           /\ flows' = Upd(Upd(flows, "trn_flow_1", tv.train_flow),
                           "val_flow_1", tv.validation_flow)
    /\ pc' = "train_global" /\ trace' = Logged
    /\ UNCHANGED <<fnVars, params, env, fold_nr, gens, yielded, session, metrics_dict,
                   metrics_it, printed>>

\* lines 191-192
AG_TrainGlobal ==
    /\ params.driver = "attention_guided" /\ pc = "train_global"
    /\ session' = train_or_load_model(session, fold_nr, "global")
    /\ flows' = Upd(Upd(flows, "trn_flow_1", FlowPull(flows["trn_flow_1"], env.train_batches)),
                    "val_flow_1", FlowPull(flows["val_flow_1"], env.train_batches))
    /\ pc' = "predict_global" /\ trace' = Logged
    /\ UNCHANGED <<fnVars, params, env, fold_nr, frames, gens, yielded, metrics_dict,
                   metrics_it, printed>>

\* lines 194-195
AG_PredictGlobal ==
    /\ params.driver = "attention_guided" /\ pc = "predict_global"
    /\ LET f == create_test_flow(frames["test_data_frame"], params.is_binary, params.seed)
       IN  flows' = Upd(flows, "tst_flow_1", FlowPull(f, Len(f.df) + env.prefetch))
    /\ pc' = "metrics_global" /\ trace' = Logged
    /\ UNCHANGED <<fnVars, params, env, fold_nr, frames, gens, yielded, session,
                   metrics_dict, metrics_it, printed>>

\* lines 196-201
AG_MetricsGlobal ==
    /\ params.driver = "attention_guided" /\ pc = "metrics_global"
    /\ metrics_it' = accuracy_precision_recall_fscore(env.metrics[fold_nr].global,
                                                      params.is_binary)
    /\ pc' = "crop" /\ trace' = Logged
    /\ UNCHANGED <<fnVars, params, env, fold_nr, frames, flowVars, session, metrics_dict,
                   printed>>

\* lines 203-207
AG_Crop ==
    /\ params.driver = "attention_guided" /\ pc = "crop"
    /\ frames' = Upd(Upd(frames, "test_data_frame_2",
                         crop_and_draw_class_activation_map(frames["test_data_frame"])),
                     "train_data_frame_2",
                     crop_and_draw_class_activation_map(frames["train_data_frame"]))
    /\ pc' = "train_local" /\ trace' = Logged
    /\ UNCHANGED <<fnVars, params, env, fold_nr, flowVars, session, metrics_dict,
                   metrics_it, printed>>

\* lines 209-212
AG_TrainLocal ==
    /\ params.driver = "attention_guided" /\ pc = "train_local"
    /\ LET tv == get_training_and_validation_flow(frames["train_data_frame_2"],
                     params.data_augmentation, params.is_binary, params.seed,
                     params.batch_size, env.val_offset)
       IN  flows' = Upd(Upd(flows, "trn_flow_2", FlowPull(tv.train_flow, env.train_batches)),
                        "val_flow_2", FlowPull(tv.validation_flow, env.train_batches))
    /\ session' = train_or_load_model(session, fold_nr, "local")
    /\ pc' = "predict_local" /\ trace' = Logged
    /\ UNCHANGED <<fnVars, params, env, fold_nr, frames, gens, yielded, metrics_dict,
                   metrics_it, printed>>

\* lines 214-215
AG_PredictLocal ==
    /\ params.driver = "attention_guided" /\ pc = "predict_local"
    /\ LET f == create_test_flow(frames["test_data_frame_2"], params.is_binary, params.seed)
       IN  flows' = Upd(flows, "tst_flow_2", FlowPull(f, Len(f.df) + env.prefetch))
    /\ pc' = "metrics_local" /\ trace' = Logged
    /\ UNCHANGED <<fnVars, params, env, fold_nr, frames, gens, yielded, session,
                   metrics_dict, metrics_it, printed>>

\* lines 216-221
AG_MetricsLocal ==
    /\ params.driver = "attention_guided" /\ pc = "metrics_local"
    /\ metrics_it' = accuracy_precision_recall_fscore(env.metrics[fold_nr].local,
                                                      params.is_binary)
    /\ pc' = "train_fused" /\ trace' = Logged
    /\ UNCHANGED <<fnVars, params, env, fold_nr, frames, flowVars, session, metrics_dict,
                   printed>>

\* lines 223-229: the two adapters, and the fused model trained on them
AG_TrainFused ==
    /\ params.driver = "attention_guided" /\ pc = "train_fused"
    /\ LET t == GenPull(merge_generators("trn_flow_1", "trn_flow_2"), flows,
                        env.train_batches, <<>>)
           v == GenPull(merge_generators("val_flow_1", "val_flow_2"), t.flows,
                        env.train_batches, <<>>)
       IN  /\ flows' = v.flows
           /\ gens' = Upd(Upd(gens, "trn_flow_merged", t.gen), "val_flow_merged", v.gen)
           /\ yielded' = Upd(Upd(yielded, "trn_flow_merged", t.out), "val_flow_merged", v.out)
    /\ session' = train_or_load_model(session, fold_nr, "fused")
    /\ pc' = "predict_fused" /\ trace' = Logged
    /\ UNCHANGED <<fnVars, params, env, fold_nr, frames, metrics_dict, metrics_it, printed>>

\* lines 231-234
AG_PredictFused ==
    /\ params.driver = "attention_guided" /\ pc = "predict_fused"
    /\ LET f2 == create_test_flow(frames["test_data_frame_2"], params.is_binary, params.seed)
           r == GenPull(merge_generators("tst_flow_1", "tst_flow_2"),
                        Upd(flows, "tst_flow_2", f2),
                        Len(flows["tst_flow_1"].df) + env.prefetch, <<>>)
       IN  /\ flows' = r.flows
           /\ gens' = Upd(gens, "tst_flow_merged", r.gen)
           /\ yielded' = Upd(yielded, "tst_flow_merged", r.out)
    /\ pc' = "metrics_fused" /\ trace' = Logged
    /\ UNCHANGED <<fnVars, params, env, fold_nr, frames, session, metrics_dict,
                   metrics_it, printed>>

\* lines 235-237
AG_MetricsFused ==
    /\ params.driver = "attention_guided" /\ pc = "metrics_fused"
    /\ metrics_it' = accuracy_precision_recall_fscore(env.metrics[fold_nr].fused,
                                                      params.is_binary)
    /\ pc' = "report" /\ trace' = Logged
    /\ UNCHANGED <<fnVars, params, env, fold_nr, frames, flowVars, session, metrics_dict,
                   printed>>

Next ==
    \/ SP_Flows \/ SP_TrainPredict \/ SP_MetricsReport
    \/ CV_Split \/ CV_Train \/ CV_Predict \/ CV_Metrics
    \/ AG_Split \/ AG_TrainGlobal \/ AG_PredictGlobal \/ AG_MetricsGlobal \/ AG_Crop
    \/ AG_TrainLocal \/ AG_PredictLocal \/ AG_MetricsLocal \/ AG_TrainFused
    \/ AG_PredictFused \/ AG_MetricsFused
    \/ Report \/ Accumulate \/ ClearSession \/ NextFold \/ Average

Spec == Init /\ [][Next]_vars
SpecSplit == InitSplit /\ [][Next]_vars
SpecFused == InitFused /\ [][Next]_vars

(* ------------------------------- C1 ------------------------------------- *)
CVDrivers == {"cv", "attention_guided"}

\* the stage whose metrics a driver accumulates
FinalStage == IF params.driver = "attention_guided" THEN "fused" ELSE "single"

\* C1: the dictionary handed to print_results after the fold loop has exactly the
\* keys of the per-fold dictionaries and, for every key, the value (sum of the
\* nr_folds per-fold values) / nr_folds, the per-fold values being those of the
\* fused stage in the dual-branch driver.
C1_AggregatedMean ==
    (pc = "done" /\ params.driver \in CVDrivers) =>
        /\ DOMAIN printed = MetricKeys(params.is_binary)
        /\ \A key \in MetricKeys(params.is_binary) :
              printed[key] =
                 Quot(SumOver([f \in 1..params.nr_folds |-> env.metrics[f][FinalStage][key]],
                              1..params.nr_folds),
                      params.nr_folds)

\* three folds of the dual-branch driver with accuracies 1, 1 and 3
C1_Witness ==
    /\ pc = "done" /\ params.driver = "attention_guided" /\ params.nr_folds = 3
    /\ env.metrics[1].fused["accuracy"] = 1 /\ env.metrics[2].fused["accuracy"] = 1
    /\ env.metrics[3].fused["accuracy"] = 3
    /\ printed["accuracy"] = Quot(5, 3)

(* ------------------------------- C6 ------------------------------------- *)
PredictStmts == {"predict", "predict_global", "predict_local", "predict_fused"}
TrainStmts == {"train", "train_global", "train_local", "train_fused"}

\* C6: the backend session is cleared exactly once per fold, after all of that
\* fold's training, prediction, metric accumulation and reporting and before any
\* statement of a later fold; so the session never holds a model of an earlier
\* fold, and holds none when a fold starts.
C6_ClearedOncePerFold ==
    params.driver \in CVDrivers =>
        /\ \A m \in session : m.fold = fold_nr
        /\ pc \in {"split", "train", "train_global", "next", "average", "done"} => session = {}
        /\ \A f \in 1..params.nr_folds :
              Cardinality({p \in 1..Len(trace) : trace[p].fold = f /\ trace[p].stmt = "clear"})
                 = IF f < fold_nr \/ (f = fold_nr /\ pc = "next") THEN 1 ELSE 0
        /\ \A p \in 1..Len(trace) :
              trace[p].stmt = "clear" =>
                 /\ \A q \in 1..Len(trace) :
                       /\ (trace[q].fold = trace[p].fold /\ trace[q].stmt \notin {"clear", "next"})
                             => q < p
                       /\ trace[q].fold > trace[p].fold => q > p
                 /\ \E q \in 1..(p - 1) :
                       trace[q].fold = trace[p].fold /\ trace[q].stmt \in {"predict", "predict_fused"}
                 /\ \E q \in 1..(p - 1) :
                       trace[q].fold = trace[p].fold /\ trace[q].stmt = "report"
                 /\ \E q \in 1..(p - 1) :
                       trace[q].fold = trace[p].fold /\ trace[q].stmt = "accumulate"

\* the second fold of the dual-branch driver is about to train its first model;
\* the first fold trained three
C6_Witness ==
    /\ params.driver = "attention_guided" /\ fold_nr = 2 /\ pc = "train_global"
    /\ session = {}
    /\ Cardinality({p \in 1..Len(trace) : trace[p].fold = 1 /\ trace[p].stmt \in TrainStmts}) = 3

(* ------------------------------- C7 ------------------------------------- *)
Files(f) == {f.df[i].filename : i \in 1..Len(f.df)}

\* trn and val are disjoint and together hold the rows part; tst shares no row
\* with either
Partitioned(trn, val, part) ==
    /\ Files(flows[trn]) \cap Files(flows[val]) = {}
    /\ Files(flows[trn]) \cup Files(flows[val]) = part
HeldOut(trn, val, tst) ==
    /\ Files(flows[tst]) \cap Files(flows[trn]) = {}
    /\ Files(flows[tst]) \cap Files(flows[val]) = {}
    /\ Files(flows[tst]) # {}

InFold == pc \notin {"split", "average", "done"}

\* C7: within a fold of a cross-validation driver, the rows of the training flow,
\* of the validation flow and of the test flow of each model are pairwise
\* disjoint, and the training and validation rows together are exactly the fold's
\* training partition; in the split driver the training and the validation rows
\* are disjoint and together the training manifest.
C7_DisjointPartitions ==
    LET part == (1..ManifestRows) \ env.k_fold[fold_nr]
    IN  /\ (params.driver = "split" /\ pc # "split") =>
              Partitioned("trn_flow", "val_flow", 1..ManifestRows)
        /\ (params.driver = "cv" /\ InFold) =>
              /\ Partitioned("trn_flow", "val_flow", part)
              /\ HeldOut("trn_flow", "val_flow", "tst_flow")
        /\ (params.driver = "attention_guided" /\ InFold) =>
              /\ Partitioned("trn_flow_1", "val_flow_1", part)
              /\ pc \notin {"train_global", "predict_global"} =>
                    HeldOut("trn_flow_1", "val_flow_1", "tst_flow_1")
              /\ pc \notin {"train_global", "predict_global", "metrics_global", "crop",
                            "train_local"} =>
                    Partitioned("trn_flow_2", "val_flow_2", part)
              /\ pc \notin {"train_global", "predict_global", "metrics_global", "crop",
                            "train_local", "predict_local"} =>
                    HeldOut("trn_flow_2", "val_flow_2", "tst_flow_2")

\* the last fold of the dual-branch driver, all six flows built, under a split
\* that does not deal the rows out in manifest order
C7_Witness ==
    /\ params.driver = "attention_guided" /\ fold_nr = params.nr_folds /\ pc = "report"
    /\ env.k_fold[1] = {2, ManifestRows} /\ env.val_offset = 1
    /\ Files(flows["val_flow_2"]) # {} /\ Files(flows["trn_flow_2"]) # {}

(* ------------------------------- C10 ------------------------------------ *)
SameBuild(a, b) ==
    /\ flows[a].seed = flows[b].seed
    /\ flows[a].shuffle = flows[b].shuffle
    /\ flows[a].batch_size = flows[b].batch_size
    /\ Len(flows[a].df) = Len(flows[b].df)

Image(row) == [filename |-> row.filename, cropped |-> row.cropped]

====
